---------------------------- MODULE Spec2Model ----------------------------
(***************************************************************************)
(* SessionManager of matrix_sdk_crypto (session_manager.rs): the scan for  *)
(* devices that lack an Olm session, the handler of a /keys/claim          *)
(* response, the wedged-device bookkeeping and the queue of outgoing       *)
(* to-device requests.                                                     *)
(*                                                                         *)
(* Every operation is one action. It leaves its arguments and its result   *)
(* in ret, where they stay until the caller takes them (Return); only then *)
(* does the next operation start, except that get_missing_sessions may     *)
(* also be called right after a claim response or after another scan.      *)
(* Time is in seconds.                                                     *)
(*                                                                         *)
(* Spec runs the operations one after the other. Concurrent runs calls of  *)
(* them as tasks that interleave at their await points and between their   *)
(* operations on the shared maps; tasks holds the progress of each.        *)
(***************************************************************************)
EXTENDS Integers, Sequences, FiniteSets, TLC

\* ------------------------------------------------------------------ bounds
\* The clock advances in steps of ClockStep seconds up to MaxNow.
ClockStep == 3600
MaxNow == 7200
\* The most sessions the store holds.
MaxSessions == 3
\* The most requests that wait in outgoing_to_device_requests.
MaxQueue == 2

\* --------------------------------------------------------- program constants
KEY_CLAIM_TIMEOUT == 10
UNWEDGING_INTERVAL == 3600

\* ------------------------------------------------------------- the universe
Alice == "@alice:localhost"
Bob == "@bob:localhost"
UserIds == {Alice, Bob}

NoKey == "no_curve25519_key"

\* The devices the store knows. BOB1 has no Curve25519 key; (Bob, BOB2) is a
\* device the store does not know.
StoreDevices ==
    { [user_id |-> Alice, device_id |-> "ALICE1", curve25519 |-> "curve_alice1"],
      [user_id |-> Alice, device_id |-> "ALICE2", curve25519 |-> "curve_alice2"],
      [user_id |-> Bob,   device_id |-> "BOB1",   curve25519 |-> NoKey] }

CurveKeys == {d.curve25519 : d \in StoreDevices} \ {NoKey}

\* Every (user, device) pair an input may name, in the order of a BTreeMap
\* keyed by user id and then device id.
PairOrder ==
    << <<Alice, "ALICE1">>, <<Alice, "ALICE2">>, <<Bob, "BOB1">>, <<Bob, "BOB2">> >>

AllPairs == {PairOrder[i] : i \in DOMAIN PairOrder}

\* The pairs a /keys/claim response has keys for: the two devices with keys
\* and the unknown one.
ClaimedPairs == {<<Alice, "ALICE1">>, <<Alice, "ALICE2">>, <<Bob, "BOB2">>}

\* The pairs other submodules put in users_for_key_claim: a known device and
\* the unknown one.
KeyClaimPairs == {<<Alice, "ALICE1">>, <<Bob, "BOB2">>}

SignedCurve25519 == "signed_curve25519"

VARIABLES
    now,                          \* the monotonic clock (Instant::now)
    sessions,                     \* Store: identity key -> list of sessions
    users_for_key_claim,          \* user -> set of devices (DashMap of DashSet)
    wedged_devices,               \* user -> set of devices (DashMap of DashSet)
    outgoing_to_device_requests,  \* request id -> OutgoingRequest
    ret,                          \* the operation that just ran, its arguments and result
    tasks                         \* the calls that run concurrently: task -> its progress

vars == << now, sessions, users_for_key_claim, wedged_devices,
           outgoing_to_device_requests, ret, tasks >>

\* --------------------------------------------------------------- containers
EmptyMap == [k \in {} |-> {}]

\* BTreeMap::insert / DashMap::insert: k is bound to v, replacing any binding.
Insert(m, k, v) == [x \in (DOMAIN m) \cup {k} |-> IF x = k THEN v ELSE m[x]]

\* DashMap::remove: the binding of k, if any, is dropped.
Remove(m, k) == [x \in (DOMAIN m) \ {k} |-> m[x]]

\* map.entry(user).or_insert_with(BTreeMap::new).insert(device, value)
EntryInsert(m, user_id, device_id, value) ==
    Insert(m, user_id,
           Insert(IF user_id \in DOMAIN m THEN m[user_id] ELSE EmptyMap,
                  device_id, value))

\* set_map.entry(user).or_insert_with(DashSet::new).insert(device)
EntrySetInsert(m, user_id, device_id) ==
    Insert(m, user_id,
           (IF user_id \in DOMAIN m THEN m[user_id] ELSE {}) \cup {device_id})

\* The (user, device) pairs of a DashMap<UserId, DashSet<DeviceIdBox>>.
PairsOf(m) == {p \in AllPairs : p[1] \in DOMAIN m /\ p[2] \in m[p[1]]}

\* The (user, device) pairs of a BTreeMap<UserId, BTreeMap<DeviceIdBox, _>>.
KeysOf(m) == {p \in AllPairs : p[1] \in DOMAIN m /\ p[2] \in DOMAIN m[p[1]]}

\* -------------------------------------------------------------------- store
\* Store::get_user_devices(user).devices()
GetUserDevices(user_id) == {d \in StoreDevices : d.user_id = user_id}

\* Store::get_readonly_device / Store::get_device: the device or nothing.
GetDevice(user_id, device_id) ==
    {d \in StoreDevices : d.user_id = user_id /\ d.device_id = device_id}

\* Store::get_device_from_curve_key(sender, curve_key)
GetDeviceFromCurveKey(sender, curve_key) ==
    {d \in StoreDevices : d.user_id = sender /\ d.curve25519 = curve_key
                          /\ curve_key # NoKey}


\* Store::get_sessions(sender_key) on the session map store: Some(list)
\* exactly for the keys in its domain.
HasSessionList(store, sender_key) == sender_key \in DOMAIN store

\* The number of sessions the store holds.
RECURSIVE CountSessions(_, _)
CountSessions(store, keys) ==
    IF keys = {} THEN 0
    ELSE LET k == CHOOSE x \in keys : TRUE
         IN Len(store[k]) + CountSessions(store, keys \ {k})

\* A store whose save_sessions replaces the list of the sender key.
SaveSessionsReplacing(store, sender_key, session, front) ==
    Insert(store, sender_key, <<session>>)

\* Store::save_sessions(&[session]): the session joins the list of its sender
\* key, which is created when there is none. The store promises no order of
\* the list: the new session is put in front of it or behind it.
SaveSessions(store, sender_key, session, front) ==
    LET list == IF HasSessionList(store, sender_key) THEN store[sender_key] ELSE << >>
    IN Insert(store, sender_key,
              IF front THEN <<session>> \o list ELSE Append(list, session))

\* Instant::elapsed of a creation time.
Elapsed(creation_time) == now - creation_time

\* Uuid::new_v4(): an id that no queued request has; the smallest stands for
\* any of them. There is one id more than the queue holds requests.
Uuids == 1 .. (MaxQueue + 1)

NewV4(requests) ==
    CHOOSE id \in Uuids \ DOMAIN requests :
        \A other \in Uuids \ DOMAIN requests : id <= other

\* ------------------------------------------------- get_missing_sessions
\* is_missing with the test of the list negated.
IsMissingInverted(sender_key) ==
    IF HasSessionList(sessions, sender_key)
    THEN Len(sessions[sender_key]) # 0
    ELSE TRUE

\* is_missing without the look at the list.
IsMissingUnlessListed(sender_key) == ~HasSessionList(sessions, sender_key)

\* is_missing: no session list for the key, or an empty one.
IsMissing(sender_key) ==
    IF HasSessionList(sessions, sender_key)
    THEN Len(sessions[sender_key]) = 0
    ELSE TRUE

\* The loop over one user's devices.
RECURSIVE MissingOfDevices(_, _, _)
MissingOfDevices(missing, user_id, devices) ==
    IF devices = {} THEN missing
    ELSE LET device == CHOOSE d \in devices : TRUE
             rest == devices \ {device}
         IN IF device.curve25519 = NoKey
            THEN MissingOfDevices(missing, user_id, rest)
            ELSE IF IsMissing(device.curve25519)
                 THEN MissingOfDevices(
                          EntryInsert(missing, user_id, device.device_id,
                                      SignedCurve25519),
                          user_id, rest)
                 ELSE MissingOfDevices(missing, user_id, rest)

\* The loop over the users, had it ended after the first of them.
MissingOfUsersFirstOnly(missing, users) ==
    IF users = << >> THEN missing
    ELSE MissingOfDevices(missing, Head(users), GetUserDevices(Head(users)))

\* The loop over the users the caller supplies, a sequence.
RECURSIVE MissingOfUsers(_, _)
MissingOfUsers(missing, users) ==
    IF users = << >> THEN missing
    ELSE MissingOfUsers(MissingOfDevices(missing, Head(users),
                                         GetUserDevices(Head(users))),
                        Tail(users))

\* The loop over users_for_key_claim, had it skipped the devices that have a
\* session.
RECURSIVE MissingOfKeyClaimsUnlessSession(_, _)
MissingOfKeyClaimsUnlessSession(missing, pairs) ==
    IF pairs = {} THEN missing
    ELSE LET item == CHOOSE p \in pairs : TRUE
             found == GetDevice(item[1], item[2])
             has_session ==
                 /\ found # {}
                 /\ (CHOOSE d \in found : TRUE).curve25519 # NoKey
                 /\ ~IsMissing((CHOOSE d \in found : TRUE).curve25519)
         IN MissingOfKeyClaimsUnlessSession(
                IF has_session THEN missing
                ELSE EntryInsert(missing, item[1], item[2], SignedCurve25519),
                pairs \ {item})

\* The loop over users_for_key_claim.
RECURSIVE MissingOfKeyClaims(_, _)
MissingOfKeyClaims(missing, pairs) ==
    IF pairs = {} THEN missing
    ELSE LET item == CHOOSE p \in pairs : TRUE
         IN MissingOfKeyClaims(
                EntryInsert(missing, item[1], item[2], SignedCurve25519),
                pairs \ {item})

\* The map of the request: the store pass, then the users_for_key_claim pass.
MissingSessions(users) ==
    MissingOfKeyClaims(MissingOfUsers(EmptyMap, users),
                       PairsOf(users_for_key_claim))

\* The users of a list.
UsersOf(users) == {users[i] : i \in DOMAIN users}

\* An entry of a handled response that failed with an error (a store error, a
\* failed create_outbound_session or a failed save_sessions) and whose
\* device, one with a Curve25519 key, has no session.
FailedWithoutSession(entry) ==
    /\ entry.outcome \in {"store_error", "session_error", "save_error"}
    /\ \E d \in GetDevice(entry.user_id, entry.device_id) :
          d.curve25519 # NoKey /\ IsMissing(d.curve25519)

\* What a scan follows: a claim response that stored a session for each of
\* its entries, all of them devices of the scan's users ("saved_response"),
\* a claim response with a failed entry for a session-less device of one of
\* the scan's users ("failed_response"), a scan of the same users that
\* returned no error ("same_scan"), or something else.
Follows(users) ==
    IF ret.op = "receive_keys_claim_response"
    THEN IF /\ ret.log # << >>
            /\ \A i \in DOMAIN ret.log : ret.log[i].outcome = "saved"
            /\ {ret.log[i].user_id : i \in DOMAIN ret.log} = UsersOf(users)
         THEN "saved_response"
         ELSE IF \E i \in DOMAIN ret.log :
                    /\ FailedWithoutSession(ret.log[i])
                    /\ ret.log[i].user_id \in UsersOf(users)
              THEN "failed_response"
              ELSE "response"
    ELSE IF ret.op = "get_missing_sessions"
         THEN IF ret.users = users /\ ret.result # "Err"
              THEN "same_scan"
              ELSE "scan"
         ELSE "idle"

\* The user lists a caller supplies.
UserSeqs == {<< >>, <<Alice>>, <<Bob>>, <<Alice, Bob>>, <<Bob, Alice>>}

\* What the scan returns, had a failed store lookup only ended the store
\* pass: the request for what was found until then.
MissingSessionsResultPartial(users, store_fails) ==
    LET missing == IF store_fails
                   THEN MissingOfKeyClaims(EmptyMap, PairsOf(users_for_key_claim))
                   ELSE MissingSessions(users)
    IN IF DOMAIN missing = {}
       THEN [op |-> "get_missing_sessions", users |-> users,
             result |-> IF store_fails THEN "Err" ELSE "None",
             after |-> Follows(users),
             store_fails |-> store_fails]
       ELSE [op |-> "get_missing_sessions", users |-> users,
             result |-> "Some", after |-> Follows(users),
             store_fails |-> store_fails,
             request_id |-> NewV4(outgoing_to_device_requests),
             request |-> [one_time_keys |-> missing,
                          timeout |-> KEY_CLAIM_TIMEOUT]]

\* What get_missing_sessions(users) returns. store_fails: one of its store
\* lookups returns an error (kept with the result).
MissingSessionsResult(users, store_fails) ==
    LET missing == MissingSessions(users)
    IN IF store_fails
       THEN [op |-> "get_missing_sessions", users |-> users,
             result |-> "Err", after |-> Follows(users),
             store_fails |-> store_fails]
       ELSE IF DOMAIN missing = {}
            THEN [op |-> "get_missing_sessions", users |-> users,
                  result |-> "None", after |-> Follows(users),
                  store_fails |-> store_fails]
            ELSE [op |-> "get_missing_sessions", users |-> users,
                  result |-> "Some", after |-> Follows(users),
                  store_fails |-> store_fails,
                  request_id |-> NewV4(outgoing_to_device_requests),
                  request |-> [one_time_keys |-> missing,
                               timeout |-> KEY_CLAIM_TIMEOUT]]

\* A scan that empties users_for_key_claim once it has read it.
GetMissingSessionsDraining(users, store_fails) ==
    /\ ret.op \in {"idle", "get_missing_sessions", "receive_keys_claim_response"}
    /\ store_fails => users # << >>
    /\ ret' = MissingSessionsResult(users, store_fails)
    /\ users_for_key_claim' = IF store_fails THEN users_for_key_claim ELSE EmptyMap
    /\ UNCHANGED << tasks, now, sessions, wedged_devices, outgoing_to_device_requests >>

\* A scan that forgets the wedged devices.
GetMissingSessionsUnwedging(users, store_fails) ==
    /\ ret.op \in {"idle", "get_missing_sessions", "receive_keys_claim_response"}
    /\ store_fails => users # << >>
    /\ ret' = MissingSessionsResult(users, store_fails)
    /\ wedged_devices' = EmptyMap
    /\ UNCHANGED << tasks, now, sessions, users_for_key_claim, outgoing_to_device_requests >>

\* get_missing_sessions(users). There is a store lookup, which may fail, only
\* when a user is supplied.
GetMissingSessions(users, store_fails) ==
    /\ ret.op \in {"idle", "get_missing_sessions", "receive_keys_claim_response"}
    /\ store_fails => users # << >>
    /\ ret' = MissingSessionsResult(users, store_fails)
    /\ UNCHANGED << tasks, now, sessions, users_for_key_claim, wedged_devices,
                    outgoing_to_device_requests >>

\* ------------------------------------------ mark_outgoing_request_as_sent
\* mark_outgoing_request_as_sent, had it cleared the queue.
MarkOutgoingRequestAsSentClearing(id) ==
    /\ ret.op = "idle"
    /\ outgoing_to_device_requests' = EmptyMap
    /\ ret' = [op |-> "mark_outgoing_request_as_sent", id |-> id]
    /\ UNCHANGED << tasks, now, sessions, users_for_key_claim, wedged_devices >>

\* mark_outgoing_request_as_sent(id)
MarkOutgoingRequestAsSent(id) ==
    /\ ret.op = "idle"
    /\ outgoing_to_device_requests' = Remove(outgoing_to_device_requests, id)
    /\ ret' = [op |-> "mark_outgoing_request_as_sent", id |-> id]
    /\ UNCHANGED << tasks, now, sessions, users_for_key_claim, wedged_devices >>

\* -------------------------------------------------- mark_device_as_wedged
\* sessions.sort_by_key(|s| s.creation_time): a stable sort.
RECURSIVE InsertByKey(_, _)
InsertByKey(session, sorted) ==
    IF sorted = << >> THEN <<session>>
    ELSE IF Head(sorted).creation_time <= session.creation_time
         THEN <<Head(sorted)>> \o InsertByKey(session, Tail(sorted))
         ELSE <<session>> \o sorted

RECURSIVE SortByKey(_)
SortByKey(list) ==
    IF list = << >> THEN << >>
    ELSE InsertByKey(list[Len(list)], SortByKey(SubSeq(list, 1, Len(list) - 1)))

\* The test of the age with >= for >.
IsStaleAtInterval(session) == Elapsed(session.creation_time) >= UNWEDGING_INTERVAL

\* session.creation_time.elapsed() > Self::UNWEDGING_INTERVAL
IsStale(session) == Elapsed(session.creation_time) > UNWEDGING_INTERVAL

\* The call, had it looked at the newest session of the sorted list.
WedgedAfterMarkNewest(device, sorted) ==
    IF Len(sorted) > 0 /\ IsStale(sorted[Len(sorted)])
    THEN EntrySetInsert(wedged_devices, device.user_id, device.device_id)
    ELSE wedged_devices

\* What the call does to wedged_devices, given the sorted session list.
WedgedAfterMark(device, sorted) ==
    IF Len(sorted) > 0 /\ IsStale(sorted[1])
    THEN EntrySetInsert(wedged_devices, device.user_id, device.device_id)
    ELSE wedged_devices

\* mark_device_as_wedged(sender, curve_key). failure: the store call that
\* returns an error, if any.
MarkDeviceAsWedged(sender, curve_key, failure) ==
    LET found == GetDeviceFromCurveKey(sender, curve_key)
    IN /\ ret.op = "idle"
       /\ failure = "get_sessions" => found # {}
       /\ IF failure # "none"
          THEN /\ ret' = [op |-> "mark_device_as_wedged", sender |-> sender,
                          curve_key |-> curve_key, result |-> "Err"]
               /\ UNCHANGED << sessions, wedged_devices >>
          ELSE /\ ret' = [op |-> "mark_device_as_wedged", sender |-> sender,
                          curve_key |-> curve_key, result |-> "Ok"]
               /\ IF found = {} \/ ~HasSessionList(sessions, curve_key)
                  THEN UNCHANGED << sessions, wedged_devices >>
                  ELSE LET device == CHOOSE d \in found : TRUE
                           sorted == SortByKey(sessions[curve_key])
                       IN /\ sessions' = [sessions EXCEPT ![curve_key] = sorted]
                          /\ wedged_devices' = WedgedAfterMark(device, sorted)
       /\ UNCHANGED << tasks, now, users_for_key_claim, outgoing_to_device_requests >>

\* ------------------------------------------------------ check_if_unwedged
\* Whether wedged_devices holds the pair.
WasWedged(wedged, user_id, device_id) ==
    user_id \in DOMAIN wedged /\ device_id \in wedged[user_id]

\* The dummy request, had it been addressed to all devices of the user.
DummyRequestToAllDevices(id, device) ==
    [request_id |-> id,
     request |-> [event_type |-> "m.room.encrypted",
                  txn_id |-> id,
                  messages |-> EntryInsert(EmptyMap, device.user_id,
                                           "*", "m.dummy")]]

\* The dummy to-device request of an unwedged device.
DummyRequest(id, device) ==
    [request_id |-> id,
     request |-> [event_type |-> "m.room.encrypted",
                  txn_id |-> id,
                  messages |-> EntryInsert(EmptyMap, device.user_id,
                                           device.device_id, "m.dummy")]]

UnwedgeFailures == {"get_device", "encrypt", "to_raw_value"}

\* check_if_unwedged, had it looked the pair up without removing it.
CheckIfUnwedgedKeeping(st, user_id, device_id, failure) ==
    IF WasWedged(st.wedged_devices, user_id, device_id)
    THEN LET found == GetDevice(user_id, device_id)
         IN IF failure \in UnwedgeFailures \/ found = {}
            THEN st
            ELSE IF Cardinality(DOMAIN st.requests) >= MaxQueue
                 THEN [st EXCEPT !.ok = FALSE]
                 ELSE [st EXCEPT !.requests =
                          Insert(@, NewV4(@),
                                 DummyRequest(NewV4(@), CHOOSE d \in found : TRUE))]
    ELSE st

\* check_if_unwedged, had it queued the dummy request for a device that was
\* not wedged too.
CheckIfUnwedgedAlways(st, user_id, device_id, failure) ==
    LET removed == IF user_id \in DOMAIN st.wedged_devices
                   THEN [st EXCEPT !.wedged_devices[user_id] = @ \ {device_id}]
                   ELSE st
        found == GetDevice(user_id, device_id)
    IN IF failure \in UnwedgeFailures \/ found = {}
       THEN removed
       ELSE IF Cardinality(DOMAIN st.requests) >= MaxQueue
            THEN [removed EXCEPT !.ok = FALSE]
            ELSE [removed EXCEPT !.requests =
                     Insert(@, NewV4(@),
                            DummyRequest(NewV4(@), CHOOSE d \in found : TRUE))]

\* check_if_unwedged, had its request taken the place of the queued ones.
CheckIfUnwedgedReplacing(st, user_id, device_id, failure) ==
    IF WasWedged(st.wedged_devices, user_id, device_id)
    THEN LET removed == [st EXCEPT !.wedged_devices[user_id] = @ \ {device_id}]
             found == GetDevice(user_id, device_id)
         IN IF failure \in UnwedgeFailures \/ found = {}
            THEN removed
            ELSE IF Cardinality(DOMAIN st.requests) >= MaxQueue
                 THEN [removed EXCEPT !.ok = FALSE]
                 ELSE [removed EXCEPT !.requests =
                          Insert(EmptyMap, NewV4(@),
                                 DummyRequest(NewV4(@), CHOOSE d \in found : TRUE))]
    ELSE st

\* check_if_unwedged(user_id, device_id) on the manager's state st. failure:
\* the call of it that returns an error, if any. st.ok turns FALSE when the
\* queue is full.
CheckIfUnwedged(st, user_id, device_id, failure) ==
    IF WasWedged(st.wedged_devices, user_id, device_id)
    THEN LET removed == [st EXCEPT !.wedged_devices[user_id] = @ \ {device_id}]
             found == GetDevice(user_id, device_id)
         IN IF failure \in UnwedgeFailures \/ found = {}
            THEN removed
            ELSE IF Cardinality(DOMAIN st.requests) >= MaxQueue
                 THEN [removed EXCEPT !.ok = FALSE]
                 ELSE [removed EXCEPT !.requests =
                          Insert(@, NewV4(@),
                                 DummyRequest(NewV4(@), CHOOSE d \in found : TRUE))]
    ELSE st

\* -------------------------------------------- receive_keys_claim_response
\* The call of an entry that fails, if any.
Failures == {"none", "get_readonly_device", "create_outbound_session",
             "save_sessions"} \cup UnwedgeFailures

\* The entries of response.one_time_keys in the order of its BTreeMaps.
SortedEntries(one_time_keys) ==
    SelectSeq(PairOrder, LAMBDA p : p \in one_time_keys)

\* How far an entry gets: the match on get_readonly_device, the match on
\* create_outbound_session (which needs the device's Curve25519 key), and
\* the result of save_sessions.
EntryOutcome(found, failure) ==
    IF failure = "get_readonly_device" THEN "store_error"
    ELSE IF found = {} THEN "unknown_device"
    ELSE IF failure = "create_outbound_session"
            \/ (CHOOSE d \in found : TRUE).curve25519 = NoKey
         THEN "session_error"
    ELSE IF failure = "save_sessions" THEN "save_error"
    ELSE "saved"

\* The call is added to the calls the handler has made, in their order.
Called(st, call, user_id, device_id, result) ==
    [st EXCEPT !.calls = Append(@, [call |-> call, user_id |-> user_id,
                                    device_id |-> device_id, result |-> result])]

\* What check_if_unwedged returns.
UnwedgeResult(st, user_id, device_id, failure) ==
    IF WasWedged(st.wedged_devices, user_id, device_id) /\ failure \in UnwedgeFailures
    THEN "Err"
    ELSE "Ok"

\* From save_sessions on, without the continue after a failed save_sessions.
SaveAndUnwedgeDespiteError(st, user_id, device_id, sender_key, failure, front) ==
    IF failure # "save_sessions"
       /\ CountSessions(st.sessions, DOMAIN st.sessions) >= MaxSessions
    THEN [st EXCEPT !.ok = FALSE]
    ELSE LET saved ==
                 IF failure = "save_sessions"
                 THEN Called(st, "save_sessions", user_id, device_id, "Err")
                 ELSE Called([st EXCEPT !.sessions =
                                  SaveSessions(@, sender_key,
                                               [creation_time |-> now], front)],
                             "save_sessions", user_id, device_id, "Ok")
             told == Called([saved EXCEPT !.retry_keyshare =
                                Append(@, <<user_id, device_id>>)],
                            "retry_keyshare", user_id, device_id, "Ok")
         IN CheckIfUnwedged(
                Called(told, "check_if_unwedged", user_id, device_id,
                       UnwedgeResult(told, user_id, device_id, failure)),
                user_id, device_id, failure)

\* From save_sessions on, with the unwedging check ahead of the key-retry
\* notification.
SaveAndUnwedgeCheckingFirst(st, user_id, device_id, sender_key, failure, front) ==
    IF failure = "save_sessions"
    THEN Called(st, "save_sessions", user_id, device_id, "Err")
    ELSE IF CountSessions(st.sessions, DOMAIN st.sessions) >= MaxSessions
         THEN [st EXCEPT !.ok = FALSE]
         ELSE LET saved == Called([st EXCEPT !.sessions =
                                      SaveSessions(@, sender_key,
                                                   [creation_time |-> now], front)],
                                  "save_sessions", user_id, device_id, "Ok")
                  checked == CheckIfUnwedged(
                                 Called(saved, "check_if_unwedged", user_id, device_id,
                                        UnwedgeResult(saved, user_id, device_id, failure)),
                                 user_id, device_id, failure)
              IN Called([checked EXCEPT !.retry_keyshare =
                            Append(@, <<user_id, device_id>>)],
                        "retry_keyshare", user_id, device_id, "Ok")

\* From save_sessions on: unless save_sessions fails, the new session is in
\* the store, then the key-retry machine is told, then the unwedging check
\* runs. st.ok turns FALSE when the store is full.
SaveAndUnwedge(st, user_id, device_id, sender_key, failure, front) ==
    IF failure = "save_sessions"
    THEN Called(st, "save_sessions", user_id, device_id, "Err")
    ELSE IF CountSessions(st.sessions, DOMAIN st.sessions) >= MaxSessions
         THEN [st EXCEPT !.ok = FALSE]
         ELSE LET saved == Called([st EXCEPT !.sessions =
                                      SaveSessions(@, sender_key,
                                                   [creation_time |-> now], front)],
                                  "save_sessions", user_id, device_id, "Ok")
                  told == Called([saved EXCEPT !.retry_keyshare =
                                     Append(@, <<user_id, device_id>>)],
                                 "retry_keyshare", user_id, device_id, "Ok")
              IN CheckIfUnwedged(
                     Called(told, "check_if_unwedged", user_id, device_id,
                            UnwedgeResult(told, user_id, device_id, failure)),
                     user_id, device_id, failure)

\* One turn of the inner loop: an entry of the response. The log keeps, for
\* each entry, how far it got, whether its device was wedged and whether a
\* call of the unwedging check failed.
ReceiveEntry(st, entry, failure, front) ==
    LET user_id == entry[1]
        device_id == entry[2]
        found == GetDevice(user_id, device_id)
        outcome == EntryOutcome(found, failure)
        logged == [st EXCEPT !.log =
                      Append(@, [user_id |-> user_id, device_id |-> device_id,
                                 outcome |-> outcome,
                                 was_wedged |-> WasWedged(st.wedged_devices,
                                                          user_id, device_id),
                                 unwedge_error |-> outcome = "saved"
                                                   /\ failure \in UnwedgeFailures])]
    IN IF outcome \in {"saved", "save_error"}
       THEN SaveAndUnwedge(logged, user_id, device_id,
                           (CHOOSE d \in found : TRUE).curve25519, failure, front)
       ELSE logged

\* The two loops over the response, had the first entry that fails ended them.
RECURSIVE ReceiveEntriesAborting(_, _, _, _)
ReceiveEntriesAborting(st, entries, failures, front) ==
    IF entries = << >> THEN st
    ELSE LET next == ReceiveEntry(st, Head(entries), Head(failures), front)
         IN IF next.log[Len(next.log)].outcome # "saved"
            THEN next
            ELSE ReceiveEntriesAborting(next, Tail(entries), Tail(failures), front)

\* The two loops over the response.
RECURSIVE ReceiveEntries(_, _, _, _)
ReceiveEntries(st, entries, failures, front) ==
    IF entries = << >> THEN st
    ELSE ReceiveEntries(
             ReceiveEntry(st, Head(entries), Head(failures), front),
             Tail(entries), Tail(failures), front)

\* The responses.
Responses == SUBSET ClaimedPairs

\* A call fails only if the entry makes it: create_outbound_session and
\* save_sessions are called for a known device (a device without Curve25519
\* key fails the former by itself), the calls of the unwedging check for a
\* wedged one.
MakesCall(entry, failure) ==
    LET found == GetDevice(entry[1], entry[2])
        keyed == found # {} /\ (CHOOSE d \in found : TRUE).curve25519 # NoKey
    IN \/ failure \in {"none", "get_readonly_device"}
       \/ failure \in {"create_outbound_session", "save_sessions"} /\ keyed
       \/ /\ failure \in UnwedgeFailures
          /\ keyed
          /\ WasWedged(wedged_devices, entry[1], entry[2])

\* What may fail for the entries of a response, one call at most per entry.
FailuresOf(entries) ==
    {f \in [1 .. Len(entries) -> Failures] :
        \A i \in 1 .. Len(entries) : MakesCall(entries[i], f[i])}

\* The store has a place to choose only for a session that joins others.
HasPlace(entries, failures) ==
    \E i \in 1 .. Len(entries) :
        LET found == GetDevice(entries[i][1], entries[i][2])
        IN /\ EntryOutcome(found, failures[i]) = "saved"
           /\ HasSessionList(sessions, (CHOOSE d \in found : TRUE).curve25519)
           /\ sessions[(CHOOSE d \in found : TRUE).curve25519] # << >>

\* receive_keys_claim_response(response): always Ok(()). failures: for each
\* entry the call that fails; front: the place the store gives new sessions.
ReceiveKeysClaimResponse(one_time_keys, front) ==
    /\ ret.op = "idle"
    /\ \E failures \in FailuresOf(SortedEntries(one_time_keys)) :
          /\ front => HasPlace(SortedEntries(one_time_keys), failures)
          /\ \E st \in {ReceiveEntries([sessions |-> sessions,
                                        wedged_devices |-> wedged_devices,
                                        requests |-> outgoing_to_device_requests,
                                        retry_keyshare |-> << >>,
                                        calls |-> << >>,
                                        log |-> << >>,
                                        ok |-> TRUE],
                                       SortedEntries(one_time_keys), failures,
                                       front)} :
                /\ st.ok
                /\ sessions' = st.sessions
                /\ wedged_devices' = st.wedged_devices
                /\ outgoing_to_device_requests' = st.requests
                /\ ret' = [op |-> "receive_keys_claim_response",
                           one_time_keys |-> one_time_keys,
                           result |-> "Ok",
                           log |-> st.log,
                           calls |-> st.calls,
                           retry_keyshare |-> st.retry_keyshare]
    /\ UNCHANGED << tasks, now, users_for_key_claim >>

\* ------------------------------------------------------------ environment
\* Another submodule inserts a pair in the shared users_for_key_claim.
WantKeyClaim(user_id, device_id) ==
    /\ ret.op = "idle"
    /\ <<user_id, device_id>> \notin PairsOf(users_for_key_claim)
    /\ users_for_key_claim' = EntrySetInsert(users_for_key_claim, user_id, device_id)
    /\ UNCHANGED << tasks, now, sessions, wedged_devices, outgoing_to_device_requests,
                    ret >>

\* Time passes.
Tick ==
    /\ ret.op = "idle"
    /\ now + ClockStep <= MaxNow
    /\ now' = now + ClockStep
    /\ UNCHANGED << tasks, sessions, users_for_key_claim, wedged_devices,
                    outgoing_to_device_requests, ret >>

\* The caller takes the result of the operation.
Return ==
    /\ ret.op # "idle"
    /\ ret' = [op |-> "idle"]
    /\ UNCHANGED << tasks, now, sessions, users_for_key_claim, wedged_devices,
                    outgoing_to_device_requests >>

\* ---------------------------------------------------------- specification
Init ==
    /\ now = 0
    /\ \E known \in SUBSET CurveKeys : sessions = [k \in known |-> << >>]
    /\ users_for_key_claim = EmptyMap
    /\ wedged_devices = EmptyMap
    /\ outgoing_to_device_requests = EmptyMap
    /\ ret = [op |-> "idle"]
    /\ tasks = EmptyMap

Next ==
    \/ \E users \in UserSeqs, store_fails \in BOOLEAN :
           GetMissingSessions(users, store_fails)
    \/ \E id \in Uuids : MarkOutgoingRequestAsSent(id)
    \/ \E sender \in UserIds, curve_key \in CurveKeys \cup {"curve_unknown"},
          failure \in {"none", "get_device_from_curve_key", "get_sessions"} :
           MarkDeviceAsWedged(sender, curve_key, failure)
    \/ \E one_time_keys \in Responses, front \in BOOLEAN :
           ReceiveKeysClaimResponse(one_time_keys, front)
    \/ \E p \in KeyClaimPairs : WantKeyClaim(p[1], p[2])
    \/ Tick
    \/ Return

Spec == Init /\ [][Next]_vars

\* -------------------------------------------------------- concurrent calls
\* The device the concurrent calls are about: the handlers get a response
\* with a key for it, the wedging evaluations are for its identity key, the
\* scans are of its user.
RacedUser == Alice
RacedDevice == "ALICE1"
RacedKey == "curve_alice1"

Handlers == {"handler1", "handler2"}
Markers == {"marker1", "marker2"}
Scanners == {"scanner1"}
Tasks == Handlers \cup Markers \cup Scanners

\* The devices that have a session.
WithSession ==
    {<<d.user_id, d.device_id>> :
        d \in {x \in StoreDevices : x.curve25519 # NoKey /\ ~IsMissing(x.curve25519)}}

\* receive_keys_claim_response up to save_sessions: the device is looked up,
\* the session created and stored; a failure ends the entry, and with it the
\* call.
HandlerSave(t, failure, front) ==
    LET outcome == EntryOutcome(GetDevice(RacedUser, RacedDevice), failure)
    IN /\ tasks[t].pc = "idle"
       /\ front => /\ outcome = "saved"
                   /\ HasSessionList(sessions, RacedKey)
                   /\ sessions[RacedKey] # << >>
       /\ IF outcome = "saved"
          THEN /\ sessions' = SaveSessions(sessions, RacedKey,
                                           [creation_time |-> now], front)
               /\ tasks' = [tasks EXCEPT ![t] = [pc |-> "saved", outcome |-> outcome]]
          ELSE /\ sessions' = sessions
               /\ tasks' = [tasks EXCEPT ![t] =
                               [pc |-> "done", outcome |-> outcome,
                                was_wedged |-> FALSE, enqueued |-> FALSE]]
       /\ UNCHANGED << now, users_for_key_claim, wedged_devices,
                       outgoing_to_device_requests, ret >>

\* The step, had check_if_unwedged looked the pair up and left it in
\* wedged_devices.
HandlerRemovePeeking(t) ==
    /\ tasks[t].pc = "saved"
    /\ tasks' = [tasks EXCEPT ![t] =
                    IF WasWedged(wedged_devices, RacedUser, RacedDevice)
                    THEN [pc |-> "removed", outcome |-> "saved"]
                    ELSE [pc |-> "done", outcome |-> "saved",
                          was_wedged |-> FALSE, enqueued |-> FALSE]]
    /\ UNCHANGED << now, sessions, users_for_key_claim, wedged_devices,
                    outgoing_to_device_requests, ret >>

\* retry_keyshare, and the first step of check_if_unwedged: the pair is
\* removed from wedged_devices, and the call goes on only if it was there.
HandlerRemove(t) ==
    /\ tasks[t].pc = "saved"
    /\ IF WasWedged(wedged_devices, RacedUser, RacedDevice)
       THEN /\ wedged_devices' =
                   [wedged_devices EXCEPT ![RacedUser] = @ \ {RacedDevice}]
            /\ tasks' = [tasks EXCEPT ![t] = [pc |-> "removed", outcome |-> "saved"]]
       ELSE /\ wedged_devices' = wedged_devices
            /\ tasks' = [tasks EXCEPT ![t] =
                            [pc |-> "done", outcome |-> "saved",
                             was_wedged |-> FALSE, enqueued |-> FALSE]]
    /\ UNCHANGED << now, sessions, users_for_key_claim,
                    outgoing_to_device_requests, ret >>

\* check_if_unwedged: get_device, encrypt and to_raw_value; a failure ends
\* the call.
HandlerEncrypt(t, failure) ==
    /\ tasks[t].pc = "removed"
    /\ tasks' = [tasks EXCEPT ![t] =
                    IF failure \in UnwedgeFailures
                       \/ GetDevice(RacedUser, RacedDevice) = {}
                    THEN [pc |-> "done", outcome |-> "saved",
                          was_wedged |-> TRUE, enqueued |-> FALSE]
                    ELSE [pc |-> "encrypted", outcome |-> "saved"]]
    /\ UNCHANGED << now, sessions, users_for_key_claim, wedged_devices,
                    outgoing_to_device_requests, ret >>

\* check_if_unwedged: the dummy request is put in the queue.
HandlerInsert(t) ==
    /\ tasks[t].pc = "encrypted"
    /\ outgoing_to_device_requests' =
           Insert(outgoing_to_device_requests,
                  NewV4(outgoing_to_device_requests),
                  DummyRequest(NewV4(outgoing_to_device_requests),
                               CHOOSE d \in GetDevice(RacedUser, RacedDevice) : TRUE))
    /\ tasks' = [tasks EXCEPT ![t] =
                    [pc |-> "done", outcome |-> "saved",
                     was_wedged |-> TRUE, enqueued |-> TRUE]]
    /\ UNCHANGED << now, sessions, users_for_key_claim, wedged_devices, ret >>

\* mark_device_as_wedged: the device and its session list are looked up.
MarkerGet(t) ==
    /\ tasks[t].pc = "idle"
    /\ tasks' = [tasks EXCEPT ![t] =
                    IF GetDeviceFromCurveKey(RacedUser, RacedKey) # {}
                       /\ HasSessionList(sessions, RacedKey)
                    THEN [pc |-> "got"]
                    ELSE [pc |-> "done", inserted |-> FALSE]]
    /\ UNCHANGED << now, sessions, users_for_key_claim, wedged_devices,
                    outgoing_to_device_requests, ret >>

\* mark_device_as_wedged: the list is sorted and the age of its first
\* session tested.
MarkerSort(t) ==
    LET sorted == SortByKey(sessions[RacedKey])
    IN /\ tasks[t].pc = "got"
       /\ sessions' = [sessions EXCEPT ![RacedKey] = sorted]
       /\ tasks' = [tasks EXCEPT ![t] =
                       IF Len(sorted) > 0 /\ IsStale(sorted[1])
                       THEN [pc |-> "stale"]
                       ELSE [pc |-> "done", inserted |-> FALSE]]
       /\ UNCHANGED << now, users_for_key_claim, wedged_devices,
                       outgoing_to_device_requests, ret >>

\* mark_device_as_wedged: the pair is put in wedged_devices. inserted: it was
\* not there.
MarkerInsert(t) ==
    /\ tasks[t].pc = "stale"
    /\ wedged_devices' = EntrySetInsert(wedged_devices, RacedUser, RacedDevice)
    /\ tasks' = [tasks EXCEPT ![t] =
                    [pc |-> "done",
                     inserted |-> ~WasWedged(wedged_devices, RacedUser, RacedDevice)]]
    /\ UNCHANGED << now, sessions, users_for_key_claim,
                    outgoing_to_device_requests, ret >>

\* get_missing_sessions of the user: its devices are looked up. The task
\* keeps which devices have a session when it starts.
ScanStart(t) ==
    /\ tasks[t].pc = "idle"
    /\ tasks' = [tasks EXCEPT ![t] =
                    [pc |-> "devices", devices |-> GetUserDevices(RacedUser),
                     missing |-> EmptyMap, with_session |-> WithSession]]
    /\ UNCHANGED << now, sessions, users_for_key_claim, wedged_devices,
                    outgoing_to_device_requests, ret >>

\* The step, had it requested the device whatever its sessions.
ScanDeviceAlways(t, device) ==
    /\ tasks[t].pc = "devices"
    /\ device \in tasks[t].devices
    /\ tasks' = [tasks EXCEPT ![t].devices = @ \ {device},
                              ![t].missing = EntryInsert(@, RacedUser, device.device_id,
                                                         SignedCurve25519)]
    /\ UNCHANGED << now, sessions, users_for_key_claim, wedged_devices,
                    outgoing_to_device_requests, ret >>

\* get_missing_sessions: one turn of the loop over the devices.
ScanDevice(t, device) ==
    /\ tasks[t].pc = "devices"
    /\ device \in tasks[t].devices
    /\ tasks' = [tasks EXCEPT ![t].devices = @ \ {device},
                              ![t].missing = MissingOfDevices(@, RacedUser, {device})]
    /\ UNCHANGED << now, sessions, users_for_key_claim, wedged_devices,
                    outgoing_to_device_requests, ret >>

\* get_missing_sessions: the pass over users_for_key_claim and the result.
\* The task keeps the pairs it found there.
ScanKeyClaims(t) ==
    LET missing == MissingOfKeyClaims(tasks[t].missing, PairsOf(users_for_key_claim))
    IN /\ tasks[t].pc = "devices"
       /\ tasks[t].devices = {}
       /\ tasks' = [tasks EXCEPT ![t] =
                       [pc |-> "done",
                        result |-> IF DOMAIN missing = {} THEN "None" ELSE "Some",
                        missing |-> missing,
                        with_session |-> tasks[t].with_session,
                        key_claims |-> PairsOf(users_for_key_claim)]]
       /\ UNCHANGED << now, sessions, users_for_key_claim, wedged_devices,
                       outgoing_to_device_requests, ret >>

\* The store has no session of the device, or one that was created at 0.
InitConcurrent ==
    /\ now = 0
    /\ sessions \in {EmptyMap,
                     [k \in {RacedKey} |-> << >>],
                     [k \in {RacedKey} |-> <<[creation_time |-> 0]>>]}
    /\ users_for_key_claim = EmptyMap
    /\ wedged_devices = EmptyMap
    /\ outgoing_to_device_requests = EmptyMap
    /\ ret = [op |-> "idle"]
    /\ tasks = [t \in Tasks |-> [pc |-> "idle"]]

NextConcurrent ==
    \/ \E t \in Handlers, failure \in {"none", "save_sessions"}, front \in BOOLEAN :
           HandlerSave(t, failure, front)
    \/ \E t \in Handlers : HandlerRemove(t)
    \/ \E t \in Handlers, failure \in {"none", "encrypt"} : HandlerEncrypt(t, failure)
    \/ \E t \in Handlers : HandlerInsert(t)
    \/ \E t \in Markers : MarkerGet(t)
    \/ \E t \in Markers : MarkerSort(t)
    \/ \E t \in Markers : MarkerInsert(t)
    \/ \E t \in Scanners : ScanStart(t)
    \/ \E t \in Scanners, device \in GetUserDevices(RacedUser) : ScanDevice(t, device)
    \/ \E t \in Scanners : ScanKeyClaims(t)
    \/ WantKeyClaim(RacedUser, RacedDevice)
    \/ Tick

Concurrent == InitConcurrent /\ [][NextConcurrent]_vars

\* ------------------------------------------------------------- properties
WedgedSet == PairsOf(wedged_devices)
PendingClaimSet == PairsOf(users_for_key_claim)

\* The pairs of the devices that the store knows with a Curve25519 key.
KeyedPairs ==
    {<<d.user_id, d.device_id>> : d \in {x \in StoreDevices : x.curve25519 # NoKey}}

\* The identity key of a pair of KeyedPairs.
KeyOf(p) ==
    (CHOOSE d \in StoreDevices : d.user_id = p[1] /\ d.device_id = p[2]).curve25519

\* The sessions a session map holds for a pair of KeyedPairs.
StoredSessions(store, p) ==
    IF KeyOf(p) \in DOMAIN store THEN store[KeyOf(p)] ELSE << >>

\* The pair of a log entry.
PairOf(e) == <<e.user_id, e.device_id>>

\* The (user, device) pairs a queued request is for.
Targets(queued) == KeysOf(queued.request.messages)

\* A step of receive_keys_claim_response, of get_missing_sessions, of
\* mark_outgoing_request_as_sent.
ResponseStep == ret'.op = "receive_keys_claim_response"
ScanStep == ret'.op = "get_missing_sessions"
SentStep == ret'.op = "mark_outgoing_request_as_sent"

\* The requests a step puts in the queue.
Enqueued == (DOMAIN outgoing_to_device_requests') \ DOMAIN outgoing_to_device_requests

\* The requests a step puts in the queue for the pair p alone.
EnqueuedFor(p) ==
    {id \in Enqueued : Targets(outgoing_to_device_requests'[id]) = {p}}

\* A scan of the users of a claim response that stored a session for each of
\* its entries follows that response and returns no error.
ScanFollowsSavedResponse ==
    /\ ret.op = "receive_keys_claim_response"
    /\ ret.log # << >>
    /\ \A i \in DOMAIN ret.log : ret.log[i].outcome = "saved"
    /\ ScanStep
    /\ ret'.result # "Err"
    /\ UsersOf(ret'.users) = {ret.log[i].user_id : i \in DOMAIN ret.log}

\* C1 as stated: once receive_keys_claim_response has stored a session for
\* every entry of a response, the get_missing_sessions over the same users
\* that follows returns None.
C1_ConvergenceAsStated ==
    [][ScanFollowsSavedResponse => ret'.result = "None"]_vars

\* C1, amended: that scan returns None provided users_for_key_claim is empty
\* and every device of those users that has a Curve25519 key and is no entry
\* of the response has a stored session.
C1_Convergence ==
    [][(/\ ScanFollowsSavedResponse
        /\ PendingClaimSet = {}
        /\ \A p \in KeyedPairs :
              (p[1] \in UsersOf(ret'.users) /\ p \notin ret.one_time_keys)
                  => StoredSessions(sessions, p) # << >>)
       => ret'.result = "None"]_vars

C1_Witness ==
    /\ ret.op = "get_missing_sessions"
    /\ ret.after = "saved_response"
    /\ ret.result = "None"

\* C2: receive_keys_claim_response returns Ok and has an outcome for every
\* entry of the response; each entry that got as far as a successful
\* save_sessions has one session more in the store, created now, whatever
\* became of the other entries; and no session the store held is lost.
C2_BatchIsolation ==
    [][ResponseStep =>
        /\ ret'.result = "Ok"
        /\ Len(ret'.log) = Cardinality(ret'.one_time_keys)
        /\ {PairOf(ret'.log[i]) : i \in DOMAIN ret'.log} = ret'.one_time_keys
        /\ \A i \in DOMAIN ret'.log :
              ret'.log[i].outcome = "saved" =>
                  LET before == StoredSessions(sessions, PairOf(ret'.log[i]))
                      after == StoredSessions(sessions', PairOf(ret'.log[i]))
                  IN /\ Len(after) = Len(before) + 1
                     /\ \E j \in DOMAIN after : after[j].creation_time = now
        /\ \A k \in DOMAIN sessions :
              /\ k \in DOMAIN sessions'
              /\ Len(sessions'[k]) >= Len(sessions[k])
              /\ \A j \in DOMAIN sessions[k] :
                    \E j2 \in DOMAIN sessions'[k] : sessions'[k][j2] = sessions[k][j]
       ]_vars

C2_Witness ==
    /\ ret.op = "receive_keys_claim_response"
    /\ Len(ret.log) = 3
    /\ ret.log[1].outcome = "session_error"
    /\ ret.log[2].outcome = "saved"
    /\ ret.log[3].outcome = "unknown_device"
    /\ StoredSessions(sessions, PairOf(ret.log[2])) # << >>

\* C3 as stated: whenever receive_keys_claim_response stores a new session
\* for a pair of WedgedSet, the pair has left WedgedSet and the queue has
\* exactly one new request, for exactly that device.
C3_WedgedRecoveryAsStated ==
    [][ResponseStep =>
        \A i \in DOMAIN ret'.log :
            (ret'.log[i].outcome = "saved" /\ PairOf(ret'.log[i]) \in WedgedSet)
                => /\ PairOf(ret'.log[i]) \notin PairsOf(wedged_devices')
                   /\ Cardinality(EnqueuedFor(PairOf(ret'.log[i]))) = 1
       ]_vars

\* C3, amended: such a pair has left WedgedSet; the queue has exactly one new
\* request for exactly that device if no call of the unwedging check failed
\* and none if one did; the queue grows by these requests and by no other,
\* and what it held stays.
C3_WedgedRecovery ==
    [][ResponseStep =>
        /\ \A i \in DOMAIN ret'.log :
              (ret'.log[i].outcome = "saved" /\ PairOf(ret'.log[i]) \in WedgedSet)
                  => /\ PairOf(ret'.log[i]) \notin PairsOf(wedged_devices')
                     /\ Cardinality(EnqueuedFor(PairOf(ret'.log[i]))) =
                            IF ret'.log[i].unwedge_error THEN 0 ELSE 1
        /\ Cardinality(Enqueued) =
               Cardinality({i \in DOMAIN ret'.log :
                               /\ ret'.log[i].outcome = "saved"
                               /\ PairOf(ret'.log[i]) \in WedgedSet
                               /\ ~ret'.log[i].unwedge_error})
        /\ \A id \in DOMAIN outgoing_to_device_requests :
              /\ id \in DOMAIN outgoing_to_device_requests'
              /\ outgoing_to_device_requests'[id] = outgoing_to_device_requests[id]
       ]_vars

C3_Witness ==
    /\ ret.op = "receive_keys_claim_response"
    /\ \E i \in DOMAIN ret.log :
          /\ ret.log[i].outcome = "saved"
          /\ ret.log[i].was_wedged
          /\ ~ret.log[i].unwedge_error
          /\ PairOf(ret.log[i]) \notin WedgedSet
          /\ \E id \in DOMAIN outgoing_to_device_requests :
                Targets(outgoing_to_device_requests[id]) = {PairOf(ret.log[i])}

\* C4: when receive_keys_claim_response stores a new session for a pair that
\* is not in WedgedSet, the pair is not in WedgedSet afterwards and no new
\* request is for it; when none of the pairs it stores a session for is in
\* WedgedSet, the queue and wedged_devices are unchanged.
C4_NoSpuriousUnwedge ==
    [][ResponseStep =>
        /\ \A i \in DOMAIN ret'.log :
              (ret'.log[i].outcome = "saved" /\ PairOf(ret'.log[i]) \notin WedgedSet)
                  => /\ PairOf(ret'.log[i]) \notin PairsOf(wedged_devices')
                     /\ \A id \in Enqueued :
                           PairOf(ret'.log[i]) \notin
                               Targets(outgoing_to_device_requests'[id])
        /\ (\A i \in DOMAIN ret'.log :
               ret'.log[i].outcome = "saved" => PairOf(ret'.log[i]) \notin WedgedSet)
              => /\ outgoing_to_device_requests' = outgoing_to_device_requests
                 /\ wedged_devices' = wedged_devices
       ]_vars

C4_Witness ==
    /\ ret.op = "receive_keys_claim_response"
    /\ WedgedSet # {}
    /\ \E i \in DOMAIN ret.log :
          /\ ret.log[i].outcome = "saved"
          /\ ~ret.log[i].was_wedged
    /\ outgoing_to_device_requests = EmptyMap

\* C5: every pair that is in users_for_key_claim when get_missing_sessions
\* runs is in the request it returns, with the signed_curve25519 algorithm,
\* whatever sessions its device has and whoever the supplied users are; so
\* the scan does not return None while users_for_key_claim has a pair.
C5_UnionCorrectness ==
    [][(ScanStep /\ ret'.result # "Err") =>
        \A p \in PendingClaimSet :
            /\ ret'.result = "Some"
            /\ p \in KeysOf(ret'.request.one_time_keys)
            /\ ret'.request.one_time_keys[p[1]][p[2]] = SignedCurve25519
       ]_vars

C5_Witness ==
    /\ ret.op = "get_missing_sessions"
    /\ ret.result = "Some"
    /\ \E p \in PendingClaimSet \cap KeyedPairs :
          /\ StoredSessions(sessions, p) # << >>
          /\ p[1] \notin UsersOf(ret.users)
          /\ p \in KeysOf(ret.request.one_time_keys)

\* The pairs a scan of users is to request: the devices of the users that
\* have a Curve25519 key and no session, and the pairs of users_for_key_claim.
ExpectedMissing(users) ==
    {p \in KeyedPairs : p[1] \in UsersOf(users) /\ StoredSessions(sessions, p) = << >>}
        \cup PendingClaimSet

\* C6: a get_missing_sessions that returns no error requests exactly the
\* devices of the supplied users that have a Curve25519 key and an absent or
\* empty session list, and the pairs of users_for_key_claim; it returns None
\* exactly when there is none, and a request has a pair, the timeout of 10
\* seconds and the signed_curve25519 algorithm for every pair.
C6_ScanResult ==
    [][(ScanStep /\ ret'.result # "Err") =>
        /\ ret'.result = "None" <=> ExpectedMissing(ret'.users) = {}
        /\ ret'.result = "Some" =>
              /\ KeysOf(ret'.request.one_time_keys) = ExpectedMissing(ret'.users)
              /\ DOMAIN ret'.request.one_time_keys # {}
              /\ \A u \in DOMAIN ret'.request.one_time_keys :
                    /\ DOMAIN ret'.request.one_time_keys[u] # {}
                    /\ \A d \in DOMAIN ret'.request.one_time_keys[u] :
                          ret'.request.one_time_keys[u][d] = SignedCurve25519
              /\ ret'.request.timeout = 10
       ]_vars

C6_Witness ==
    /\ ret.op = "get_missing_sessions"
    /\ ret.result = "Some"
    /\ PendingClaimSet = {}
    /\ \E p \in KeyedPairs, q \in KeyedPairs :
          /\ p[1] \in UsersOf(ret.users) /\ q[1] \in UsersOf(ret.users)
          /\ KeyOf(p) \in DOMAIN sessions /\ sessions[KeyOf(p)] = << >>
          /\ p \in KeysOf(ret.request.one_time_keys)
          /\ StoredSessions(sessions, q) # << >>
          /\ q \notin KeysOf(ret.request.one_time_keys)

\* C7: every pair of WedgedSet is a device with at least one stored session,
\* the oldest of which is older than the unwedging interval of one hour.
C7_WedgedInvariant ==
    \A p \in WedgedSet :
        /\ p \in KeyedPairs
        /\ StoredSessions(sessions, p) # << >>
        /\ \A j \in DOMAIN StoredSessions(sessions, p) :
              (\A j2 \in DOMAIN StoredSessions(sessions, p) :
                  StoredSessions(sessions, p)[j].creation_time
                      <= StoredSessions(sessions, p)[j2].creation_time)
              => now - StoredSessions(sessions, p)[j].creation_time > 3600

C7_Witness ==
    \E p \in WedgedSet :
        /\ Len(StoredSessions(sessions, p)) = 2
        /\ \E j \in 1 .. 2 : StoredSessions(sessions, p)[j].creation_time = now

\* C8: a pair leaves WedgedSet only in a step of receive_keys_claim_response
\* that stored a new session for it.
C8_UnwedgedOnlyByNewSession ==
    [][\A p \in WedgedSet \ PairsOf(wedged_devices') :
          /\ ResponseStep
          /\ \E i \in DOMAIN ret'.log :
                /\ PairOf(ret'.log[i]) = p
                /\ ret'.log[i].outcome = "saved"
                /\ Len(StoredSessions(sessions', p))
                       = Len(StoredSessions(sessions, p)) + 1
       ]_vars

C8_Witness ==
    /\ ret.op = "receive_keys_claim_response"
    /\ \E i \in DOMAIN ret.log, j \in DOMAIN ret.log :
          /\ ret.log[i].was_wedged
          /\ ret.log[i].outcome = "saved"
          /\ PairOf(ret.log[i]) \notin WedgedSet
          /\ ret.log[j].was_wedged
          /\ ret.log[j].outcome = "save_error"
          /\ PairOf(ret.log[j]) \in WedgedSet

\* C9: after mark_outgoing_request_as_sent(id) the queue has no request id,
\* every other request it held is there unchanged and it holds no new one; an
\* id that is not in the queue leaves the queue as it is.
C9_SentRequestRemoval ==
    [][SentStep =>
        /\ ret'.id \notin DOMAIN outgoing_to_device_requests'
        /\ DOMAIN outgoing_to_device_requests'
               = (DOMAIN outgoing_to_device_requests) \ {ret'.id}
        /\ \A other \in DOMAIN outgoing_to_device_requests' :
              outgoing_to_device_requests'[other] = outgoing_to_device_requests[other]
        /\ ret'.id \notin DOMAIN outgoing_to_device_requests
              => outgoing_to_device_requests' = outgoing_to_device_requests
       ]_vars

C9_Witness ==
    /\ ret.op = "mark_outgoing_request_as_sent"
    /\ ret.id = 1
    /\ DOMAIN outgoing_to_device_requests = {2}

C11_ScanErrorPropagation ==
    [][(ScanStep /\ ret'.store_fails) =>
        /\ ret'.result = "Err"
        /\ DOMAIN ret' = {"op", "users", "result", "after", "store_fails"}
        /\ wedged_devices' = wedged_devices
        /\ users_for_key_claim' = users_for_key_claim
        /\ outgoing_to_device_requests' = outgoing_to_device_requests
        /\ sessions' = sessions
       ]_vars

C11_Witness ==
    /\ ret.op = "get_missing_sessions"
    /\ ret.store_fails
    /\ ret.result = "Err"
    /\ PendingClaimSet # {}
    /\ \E p \in KeyedPairs :
          p[1] \in UsersOf(ret.users) /\ StoredSessions(sessions, p) = << >>

\* A step of mark_device_as_wedged.
WedgingStep == ret'.op = "mark_device_as_wedged"

\* The pairs of the devices a sender has with a Curve25519 key.
ResolvedPairs(sender, curve_key) ==
    {p \in KeyedPairs : p[1] = sender /\ KeyOf(p) = curve_key}

\* The creation time of the oldest of a non-empty list of sessions.
OldestCreation(list) ==
    CHOOSE t \in {list[j].creation_time : j \in DOMAIN list} :
        \A j \in DOMAIN list : t <= list[j].creation_time

\* The age of the oldest of a non-empty list of sessions.
OldestAge(list) == now - OldestCreation(list)

CallsFor(calls, p) ==
    SelectSeq(calls, LAMBDA c : <<c.user_id, c.device_id>> = p)

\* C13: receive_keys_claim_response tells the key-retry machine of a pair
\* exactly when it has stored a new session for it, after save_sessions has
\* returned and before check_if_unwedged is called; when save_sessions fails
\* neither happens, so that the pair stays in WedgedSet if it was there and
\* nothing is queued for it.
C13_EntryStepOrder ==
    [][ResponseStep =>
        /\ \A i \in DOMAIN ret'.log :
              LET p == PairOf(ret'.log[i])
                  made == CallsFor(ret'.calls, p)
              IN /\ ret'.log[i].outcome = "saved" =>
                       /\ Len(made) = 3
                       /\ made[1].call = "save_sessions" /\ made[1].result = "Ok"
                       /\ made[2].call = "retry_keyshare"
                       /\ made[3].call = "check_if_unwedged"
                       /\ Len(StoredSessions(sessions', p))
                              = Len(StoredSessions(sessions, p)) + 1
                 /\ ret'.log[i].outcome = "save_error" =>
                       /\ Len(made) = 1
                       /\ made[1].call = "save_sessions" /\ made[1].result = "Err"
                       /\ StoredSessions(sessions', p) = StoredSessions(sessions, p)
                       /\ p \in WedgedSet => p \in PairsOf(wedged_devices')
                       /\ \A id \in Enqueued :
                             p \notin Targets(outgoing_to_device_requests'[id])
                 /\ ret'.log[i].outcome \notin {"saved", "save_error"} =>
                       made = << >>
        /\ Len(ret'.retry_keyshare)
               = Cardinality({i \in DOMAIN ret'.log : ret'.log[i].outcome = "saved"})
        /\ {ret'.retry_keyshare[j] : j \in DOMAIN ret'.retry_keyshare}
               = {PairOf(ret'.log[i]) : i \in {j \in DOMAIN ret'.log :
                                                  ret'.log[j].outcome = "saved"}}
       ]_vars

C13_Witness ==
    /\ ret.op = "receive_keys_claim_response"
    /\ \E i \in DOMAIN ret.log, j \in DOMAIN ret.log :
          /\ ret.log[i].outcome = "save_error"
          /\ ret.log[i].was_wedged
          /\ PairOf(ret.log[i]) \in WedgedSet
          /\ ret.log[j].outcome = "saved"
          /\ ret.log[j].was_wedged
          /\ ret.retry_keyshare = <<PairOf(ret.log[j])>>
          /\ Len(ret.calls) = 4

\* C14: an entry of a response that fails with an error, for a device that
\* has a Curve25519 key and no session, leaves the device without session;
\* and as long as a device with a Curve25519 key has no session, every
\* get_missing_sessions that returns no error and has its user among the
\* supplied ones requests it.
C14_RetryAfterFailure ==
    [][/\ ResponseStep =>
             \A i \in DOMAIN ret'.log :
                 (/\ ret'.log[i].outcome \in {"store_error", "session_error",
                                              "save_error"}
                  /\ PairOf(ret'.log[i]) \in KeyedPairs
                  /\ StoredSessions(sessions, PairOf(ret'.log[i])) = << >>)
                 => StoredSessions(sessions', PairOf(ret'.log[i])) = << >>
       /\ (ScanStep /\ ret'.result # "Err") =>
             \A p \in KeyedPairs :
                 (p[1] \in UsersOf(ret'.users) /\ StoredSessions(sessions, p) = << >>)
                 => /\ ret'.result = "Some"
                    /\ p \in KeysOf(ret'.request.one_time_keys)
                    /\ ret'.request.one_time_keys[p[1]][p[2]] = SignedCurve25519
      ]_vars

C14_Witness ==
    /\ ret.op = "get_missing_sessions"
    /\ ret.after = "failed_response"
    /\ ret.result = "Some"
    /\ PendingClaimSet = {}
    /\ Len(ret.users) = 2
    /\ \E p \in KeyedPairs :
          /\ StoredSessions(sessions, p) = << >>
          /\ p \in KeysOf(ret.request.one_time_keys)

\* C15: get_missing_sessions, whatever it returns, leaves users_for_key_claim
\* (whose pairs it reads and keeps), wedged_devices, the queue and every
\* stored session list as they are.
C15_ScanReadOnly ==
    [][ScanStep =>
        /\ ret'.result \in {"Some", "None", "Err"}
        /\ users_for_key_claim' = users_for_key_claim
        /\ wedged_devices' = wedged_devices
        /\ outgoing_to_device_requests' = outgoing_to_device_requests
        /\ sessions' = sessions
        /\ now' = now
       ]_vars

C15_Witness ==
    /\ ret.op = "get_missing_sessions"
    /\ ret.after = "same_scan"
    /\ ret.result = "Some"
    /\ PendingClaimSet # {}
    /\ PendingClaimSet \subseteq KeysOf(ret.request.one_time_keys)
    /\ WedgedSet # {}
    /\ outgoing_to_device_requests # EmptyMap

\* C16: a request in the queue stays in it, with the content it has, in
\* every step but a mark_outgoing_request_as_sent with its id: no scan, no
\* wedging evaluation and no handling of a claim response removes it,
\* replaces it or alters it.
C16_QueueLifecycle ==
    [][\A id \in DOMAIN outgoing_to_device_requests :
          \/ /\ id \in DOMAIN outgoing_to_device_requests'
             /\ outgoing_to_device_requests'[id] = outgoing_to_device_requests[id]
          \/ /\ SentStep
             /\ ret'.id = id
      ]_vars

C16_Witness ==
    /\ ret.op = "receive_keys_claim_response"
    /\ Cardinality(DOMAIN outgoing_to_device_requests) = 2
    /\ \E i \in DOMAIN ret.log :
          /\ ret.log[i].outcome = "saved"
          /\ ret.log[i].was_wedged
          /\ ~ret.log[i].unwedge_error

\* The number of sessions of a list that were created at time t.
CreatedAt(list, t) == Cardinality({j \in DOMAIN list : list[j].creation_time = t})

\* The creation times of the sessions of a list.
CreationTimes(list) == {list[j].creation_time : j \in DOMAIN list}

\* The pairs a step of receive_keys_claim_response stores a session for.
SavedPairs ==
    IF ResponseStep
    THEN {PairOf(ret'.log[i]) : i \in {j \in DOMAIN ret'.log :
                                          ret'.log[j].outcome = "saved"}}
    ELSE {}

\* C19: no step removes or replaces a stored session. The list of a device
\* gets one session, created now, in a receive_keys_claim_response that
\* stores a session for it and keeps its sessions otherwise;
\* mark_device_as_wedged leaves the list of its device sorted by creation
\* time; so the oldest session of a device stays. Hence the oldest session
\* of a device that is unwedged is still more than 3600 seconds old, so is
\* that of a device for which a dummy request is queued, and a
\* mark_device_as_wedged for such a device that returns Ok puts it into
\* WedgedSet again.
C19_SessionsKept ==
    [][/\ \/ sessions' = sessions
          \/ \A k \in DOMAIN sessions :
                /\ k \in DOMAIN sessions'
                /\ \A t \in CreationTimes(sessions[k]) \cup CreationTimes(sessions'[k]) :
                      CreatedAt(sessions'[k], t) =
                          CreatedAt(sessions[k], t) +
                          (IF t = now /\ (\E p \in SavedPairs : KeyOf(p) = k)
                           THEN 1 ELSE 0)
                /\ sessions[k] # << >> =>
                      OldestCreation(sessions'[k]) = OldestCreation(sessions[k])
       /\ \A p \in SavedPairs :
             /\ Len(StoredSessions(sessions', p)) = Len(StoredSessions(sessions, p)) + 1
             /\ p \in WedgedSet => OldestAge(StoredSessions(sessions', p)) > 3600
       /\ (WedgingStep /\ ret'.result = "Ok") =>
             \A p \in ResolvedPairs(ret'.sender, ret'.curve_key) :
                 /\ \A j \in DOMAIN StoredSessions(sessions', p) :
                       j > 1 => StoredSessions(sessions', p)[j - 1].creation_time
                                    <= StoredSessions(sessions', p)[j].creation_time
                 /\ (\E id \in DOMAIN outgoing_to_device_requests :
                        Targets(outgoing_to_device_requests[id]) = {p})
                       => /\ OldestAge(StoredSessions(sessions, p)) > 3600
                          /\ p \in PairsOf(wedged_devices')
      ]_vars

C19_Witness ==
    /\ ret.op = "mark_device_as_wedged"
    /\ ret.result = "Ok"
    /\ \E p \in ResolvedPairs(ret.sender, ret.curve_key) :
          /\ p \in WedgedSet
          /\ \E id \in DOMAIN outgoing_to_device_requests :
                Targets(outgoing_to_device_requests[id]) = {p}
          /\ Len(StoredSessions(sessions, p)) >= 2

\* The device ids of the store and of the inputs.
DeviceIds == {p[2] : p \in AllPairs}

\* C20: every request of the queue is stored under its own request id, which
\* is its transaction id too, and is for one device of one user, a device id
\* and not all devices; and a request enters the queue only in a
\* receive_keys_claim_response, for a pair that was in WedgedSet and for
\* which that step stored a new session.
C20_QueueEntries ==
    [][/\ \A id \in DOMAIN outgoing_to_device_requests' :
             LET queued == outgoing_to_device_requests'[id]
             IN /\ queued.request_id = id
                /\ queued.request.txn_id = id
                /\ queued.request.event_type = "m.room.encrypted"
                /\ Cardinality(DOMAIN queued.request.messages) = 1
                /\ \A u \in DOMAIN queued.request.messages :
                      /\ Cardinality(DOMAIN queued.request.messages[u]) = 1
                      /\ DOMAIN queued.request.messages[u] \subseteq DeviceIds
                /\ Cardinality(Targets(queued)) = 1
                /\ Targets(queued) \subseteq KeyedPairs
                /\ \A p \in Targets(queued) : Len(StoredSessions(sessions', p)) >= 2
       /\ \A id \in Enqueued :
             /\ ResponseStep
             /\ \A p \in Targets(outgoing_to_device_requests'[id]) :
                   /\ p \in WedgedSet
                   /\ p \in SavedPairs
      ]_vars

C20_Witness ==
    /\ ret.op = "idle"
    /\ WedgedSet = {}
    /\ \E id \in DOMAIN outgoing_to_device_requests :
          /\ outgoing_to_device_requests[id].request_id = id
          /\ \E p \in KeyedPairs :
                /\ Targets(outgoing_to_device_requests[id]) = {p}
                /\ Len(StoredSessions(sessions, p)) = 2

\* The scans that have returned.
ScansDone == {t \in Scanners \cap DOMAIN tasks : tasks[t].pc = "done"}

\* The handlers that have stored the session and may go on to the queue.
HandlersUnderWay ==
    {t \in Handlers \cap DOMAIN tasks : tasks[t].pc \in {"saved", "removed", "encrypted"}}

TimesWedged ==
    Cardinality({t \in Markers \cap DOMAIN tasks :
                    tasks[t].pc = "done" /\ tasks[t].inserted})

TimesUnwedged ==
    Cardinality({t \in Handlers \cap DOMAIN tasks :
                    \/ tasks[t].pc \in {"removed", "encrypted"}
                    \/ tasks[t].pc = "done" /\ tasks[t].was_wedged})

TimesEnqueued ==
    Cardinality({t \in Handlers \cap DOMAIN tasks :
                    tasks[t].pc = "done" /\ tasks[t].enqueued})

\* C18: however the handlers and the wedging evaluations interleave, the
\* dummy requests queued for the pair are no more than the times the pair
\* entered WedgedSet: each is queued by a handler that removed the pair, and
\* the pair was removed as often as it entered, less once if it is there.
C18_DummiesPerWedging ==
    /\ TimesEnqueued <= TimesUnwedged
    /\ TimesUnwedged + (IF <<RacedUser, RacedDevice>> \in WedgedSet THEN 1 ELSE 0)
           = TimesWedged
    /\ TimesEnqueued <= TimesWedged
    /\ Cardinality({id \in DOMAIN outgoing_to_device_requests :
                       Targets(outgoing_to_device_requests[id])
                           = {<<RacedUser, RacedDevice>>}}) = TimesEnqueued
    /\ Cardinality(DOMAIN outgoing_to_device_requests) = TimesEnqueued

C18_Witness ==
    /\ TimesWedged = 1
    /\ <<RacedUser, RacedDevice>> \notin WedgedSet
    /\ \E a \in Handlers, b \in Handlers :
          /\ tasks[a].pc = "encrypted"
          /\ tasks[b].pc = "saved"
=============================================================================
